---- MODULE Spec2Model ----
(***************************************************************************)
(* Mulebuy Manager (src/src/App.jsx): the localStorage persistence and     *)
(* migration layer, the product collection store with its bulk operations, *)
(* the conversion history and the JSON export/import codec.                *)
(*                                                                         *)
(* Representation.                                                         *)
(*  - A JavaScript object is a TLA+ record whose DOMAIN is the set of its  *)
(*    own keys.  A key holding `undefined` is a key whose value is UNDEF;  *)
(*    only the string fields shop_type and id can hold it (migration of a  *)
(*    legacy record that lacks them).                                      *)
(*  - A JavaScript array is a sequence.                                    *)
(*  - A text (URL, template string) is a sequence of string pieces, the    *)
(*    empty text being << >>.                                              *)
(*  - uid values and ISO timestamps are naturals; 0 stands for a missing   *)
(*    or falsy one.  uid() and new Date() draw from the counter `clock`,   *)
(*    which never repeats, as crypto.randomUUID() does not.                *)
(*  - A localStorage slot is Absent, BadText (text JSON.parse rejects) or  *)
(*    the JSON value that the stored text denotes.                         *)
(***************************************************************************)
EXTENDS Integers, Sequences, FiniteSets, TLC

\* ---------------------------------------------------------------- bounds
\* uid()/Date draws allowed in one run of the model (new products, history
\* entries, migrated records without uid).
MaxClock == 2
\* Products the collection may hold when a creating operation is applied.
MaxProducts == 2
\* Operations of the user (clicks, edits, reloads) in one run of the model.
MaxOps == 4

\* ---------------------------------------------------------------- constants
SCHEMA_VERSION == 2

LISTS == <<"Wishlist", "To Buy", "Ordered", "Received", "Archived">>

ListSet == {LISTS[i] : i \in 1..Len(LISTS)}

DEFAULT_SETTINGS ==
    [defaultRef |-> "200084174", defaultList |-> "Wishlist", compactCards |-> FALSE]

\* handleConvert keeps [h, ...prev].slice(0, 400)
HISTORY_CAP == 400

\* the value of a key that holds `undefined` (and its text in a template string)
UNDEF == "undefined"

\* the localStorage keys (LS)
KeyProducts == "mulebuy.products.v2"
KeySettings == "mulebuy.settings.v2"
KeyHistory == "mulebuy.history.v2"
KeyLegacySaved == "mulebuy.saved.v1"
KeyLegacyHistory == "mulebuy.history.v1"

LS == {KeyProducts, KeySettings, KeyHistory, KeyLegacySaved, KeyLegacyHistory}

\* ---------------------------------------------------------------- JS helpers
\* the n-th value uid() returns
uid(n) == n

\* new Date().toISOString() after n uid() draws; never 0, so always truthy
now(n) == n + 1

\* x.k || d for a key whose falsy value is `zero` (0 for numbers, "" for
\* strings, << >> for texts); a missing key reads undefined, which is falsy
OrElse(x, k, zero, d) == IF k \in DOMAIN x /\ x[k] /= zero THEN x[k] ELSE d

\* x.k for a string key that may be missing
Get(x, k) == IF k \in DOMAIN x THEN x[k] ELSE UNDEF

\* x.k || [] for an array key
ArrOf(x, k) == IF k \in DOMAIN x THEN x[k] ELSE << >>

\* { ...a, ...b }
Spread(a, b) ==
    [k \in (DOMAIN a) \cup (DOMAIN b) |-> IF k \in DOMAIN b THEN b[k] ELSE a[k]]

\* String.prototype.trim on the referral codes and tags the model uses
Trim(s) ==
    CASE s = " R9 " -> "R9"
      [] s = " qc " -> "qc"
      [] s = " " -> ""
      [] s = "   " -> ""
      [] s = " Coat " -> "Coat"
      [] s = " https://weidian.com/item.html?itemID=123 " ->
            "https://weidian.com/item.html?itemID=123"
      [] OTHER -> s

\* a slice that keeps the last n: slice(-n)
Slice0_Last(s, n) == IF Len(s) <= n THEN s ELSE SubSeq(s, Len(s) - n + 1, Len(s))

\* Array.prototype.slice(0, n)
Slice0(s, n) == IF Len(s) <= n THEN s ELSE SubSeq(s, 1, n)

\* Array.from(new Set(s)): first occurrences, in order
RECURSIVE Dedup(_)
Dedup(s) ==
    IF s = << >> THEN << >>
    ELSE LET r == Dedup(SubSeq(s, 1, Len(s) - 1))
             x == s[Len(s)]
         IN  IF \E i \in 1..Len(r) : r[i] = x THEN r ELSE Append(r, x)

\* ---------------------------------------------------------------- JSON
Absent == [t |-> "absent"]
BadText == [t |-> "bad"]
JsonNull == [t |-> "null"]
JsonArr(s) == [t |-> "array", v |-> s]
JsonObj(r) == [t |-> "object", v |-> r]

\* keys that can hold undefined in memory
MaybeUndef == {"shop_type", "id"}

\* JSON.stringify of an object: keys holding undefined are left out
StringifyRec(r) ==
    [k \in {f \in DOMAIN r : ~(f \in MaybeUndef /\ r[f] = UNDEF)} |-> r[k]]

\* JSON.stringify of an array of objects, as the JSON value the text denotes
StringifyArr(s) == JsonArr([i \in 1..Len(s) |-> StringifyRec(s[i])])

StringifyObj(r) == JsonObj(StringifyRec(r))

\* a test that takes an empty array for missing data: if (x && x.length)
Truthy_NonEmpty(x) == x.t = "object" \/ (x.t = "array" /\ x.v /= << >>)

\* if (x): null is falsy, arrays and objects are truthy
Truthy(x) == x.t \in {"array", "object"}

IsArray(x) == x.t = "array"

\* ---------------------------------------------------------------- conversion
\* toMulebuy({ shop_type, id, ref }); ref is "" when the caller passes
\* undefined or an empty string
toMulebuy(shop_type, id, ref) ==
    LET r == Trim(IF ref /= "" THEN ref ELSE DEFAULT_SETTINGS.defaultRef)
    IN  <<"https://mulebuy.com/product/?shop_type=", shop_type, "&id=", id, "&ref=", r>>

\* ---------------------------------------------------------------- storage
\* loadJSON(key, fallback): getItem gives null for an absent key and
\* JSON.parse(null) is null; a parse error and a null both give the fallback
loadJSON(store, key, fallback) ==
    IF store[key].t \in {"absent", "bad", "null"} THEN fallback ELSE store[key]

\* saveJSON(key, val) with val already stringified.  setItem is taken to
\* succeed: a full or unavailable store (the swallowed exception) is outside
\* the sessions modelled here
saveJSON(store, key, text) == [store EXCEPT ![key] = text]

\* the product legacy.map builds from the legacy record x; fresh is the value
\* uid() returns if called, t the time
MigratedProduct(x, fresh, t) ==
    [uid |-> OrElse(x, "uid", 0, fresh),
     created_at |-> OrElse(x, "created_at", 0, t),
     list |-> DEFAULT_SETTINGS.defaultList,
     shop_type |-> Get(x, "shop_type"),
     id |-> Get(x, "id"),
     ref |-> OrElse(x, "ref", "", DEFAULT_SETTINGS.defaultRef),
     mulebuy_url |-> OrElse(x, "mulebuy_url", << >>,
                            toMulebuy(Get(x, "shop_type"), Get(x, "id"),
                                      OrElse(x, "ref", "", ""))),
     title |-> OrElse(x, "title", "", ""),
     seller |-> "",
     size |-> "",
     price |-> "",
     rating |-> 0,
     notes |-> OrElse(x, "notes", "", ""),
     tags |-> ArrOf(x, "tags"),
     qc_links |-> ArrOf(x, "qc_links"),
     images |-> ArrOf(x, "images"),
     _v |-> SCHEMA_VERSION]

\* uid() calls legacy.map makes up to and including index i
Drawn(legacy, i) == Cardinality({j \in 1..i : OrElse(legacy[j], "uid", 0, 0) = 0})

\* a migration that gives every record a new uid
MigrateRecord_NewUid(legacy, i, n) ==
    MigratedProduct(Spread(legacy[i], [uid |-> 0]), uid(n + i), now(n))

\* legacy.map(x => ({...})), the record at index i; n uid() values were drawn
\* before the call and each record without uid draws the next one
MigrateRecord(legacy, i, n) ==
    MigratedProduct(legacy[i], uid(n + Drawn(legacy, i)), now(n))

\* uid() values migrateIfNeeded draws on `store`
MigrateDraws(store) ==
    LET products == loadJSON(store, KeyProducts, JsonNull)
        legacy == loadJSON(store, KeyLegacySaved, JsonNull)
    IN  IF Truthy(products) \/ ~IsArray(legacy) THEN 0
        ELSE Drawn(legacy.v, Len(legacy.v))

\* migrateIfNeeded(): the returned boot state, the store it leaves, and the
\* keys it wrote (in `writes`); n uid() values were drawn before the call
migrateIfNeeded(store, n) ==
    LET products == loadJSON(store, KeyProducts, JsonNull)
        s0 == loadJSON(store, KeySettings, JsonNull)
        settings == IF s0.t = "null" THEN DEFAULT_SETTINGS ELSE s0.v
        h0 == loadJSON(store, KeyHistory, JsonNull)
        history == IF h0.t = "null" THEN << >> ELSE h0.v
        legacy == loadJSON(store, KeyLegacySaved, JsonNull)
        lh0 == loadJSON(store, KeyLegacyHistory, JsonArr(<< >>))
        legacyHistory == lh0.v
    IN  IF Truthy(products)
        THEN [path |-> "current", products |-> products.v, settings |-> settings,
              history |-> history, store |-> store, writes |-> {}]
        ELSE IF IsArray(legacy)
        THEN LET migrated == [i \in 1..Len(legacy.v) |-> MigrateRecord(legacy.v, i, n)]
                 st1 == saveJSON(store, KeyProducts, StringifyArr(migrated))
                 st2 == saveJSON(st1, KeyHistory, StringifyArr(legacyHistory))
             IN  [path |-> "migrated", products |-> migrated,
                  settings |-> DEFAULT_SETTINGS, history |-> legacyHistory,
                  store |-> st2, writes |-> {KeyProducts, KeyHistory}]
        ELSE LET st1 == saveJSON(store, KeyProducts, StringifyArr(<< >>))
                 st2 == saveJSON(st1, KeySettings, StringifyObj(DEFAULT_SETTINGS))
                 st3 == saveJSON(st2, KeyHistory, StringifyArr(<< >>))
             IN  [path |-> "fresh", products |-> << >>, settings |-> DEFAULT_SETTINGS,
                  history |-> << >>, store |-> st3,
                  writes |-> {KeyProducts, KeySettings, KeyHistory}]

\* ---------------------------------------------------------------- inputs
\* the lists the model's user picks among (the Select offers all of LISTS)
UsedLists == {"Wishlist", "To Buy"}

\* a string no list is named
NotAList == "NotARealList"

\* pasted URLs, as the browser's URL parser sees them: the text, whether
\* new URL() accepts it, its hostname and its query parameters
InputUrls ==
    { [text |-> "https://weidian.com/item.html?itemID=123", wellFormed |-> TRUE,
       hostname |-> "weidian.com", query |-> [itemID |-> "123"]],
      [text |-> "https://item.taobao.com/item.htm?id=456", wellFormed |-> TRUE,
       hostname |-> "item.taobao.com", query |-> [id |-> "456"]],
      [text |-> "not a url", wellFormed |-> FALSE,
       hostname |-> "", query |-> [none |-> ""]] }

\* more pasted texts: blank ones, supported hosts without their parameter or
\* with an empty one, hosts that contain a marketplace domain inside a longer
\* name or contain both domains, an unsupported host, surrounding blanks, and an
\* item id that decodes to text with query delimiters (itemID=1%26ref%3Dx)
MoreUrls ==
    { [text |-> "", wellFormed |-> FALSE, hostname |-> "", query |-> [none |-> ""]],
      [text |-> "   ", wellFormed |-> FALSE, hostname |-> "", query |-> [none |-> ""]],
      [text |-> " https://weidian.com/item.html?itemID=123 ", wellFormed |-> TRUE,
       hostname |-> "weidian.com", query |-> [itemID |-> "123"]],
      [text |-> "https://weidian.com/item.html?id=123", wellFormed |-> TRUE,
       hostname |-> "weidian.com", query |-> [id |-> "123"]],
      [text |-> "https://shop.weidian.com/item.html?itemID=", wellFormed |-> TRUE,
       hostname |-> "shop.weidian.com", query |-> [itemID |-> ""]],
      [text |-> "https://item.taobao.com/item.htm?itemID=456", wellFormed |-> TRUE,
       hostname |-> "item.taobao.com", query |-> [itemID |-> "456"]],
      [text |-> "https://taobao.com/item.htm?id=", wellFormed |-> TRUE,
       hostname |-> "taobao.com", query |-> [id |-> ""]],
      [text |-> "https://notweidian.com/?itemID=7", wellFormed |-> TRUE,
       hostname |-> "notweidian.com", query |-> [itemID |-> "7"]],
      [text |-> "https://weidian.com.taobao.com/?id=5", wellFormed |-> TRUE,
       hostname |-> "weidian.com.taobao.com", query |-> [id |-> "5"]],
      [text |-> "https://example.com/item?id=1&itemID=1", wellFormed |-> TRUE,
       hostname |-> "example.com", query |-> [id |-> "1", itemID |-> "1"]],
      [text |-> "https://weidian.com/item.html?itemID=1%26ref%3Dx", wellFormed |-> TRUE,
       hostname |-> "weidian.com", query |-> [itemID |-> "1&ref=x"]] }

\* referral codes typed into the converter's ref field
RefInputs == {"", "R9"}

\* more referral codes: a blank one and one with surrounding blanks
MoreRefs == {" ", " R9 "}

\* what is typed into the bulk bar's tag field
TagInputs == {" ", "qc", " qc "}

\* the changes made in the settings form
SettingsPatches == {[defaultList |-> "To Buy"], [defaultRef |-> "R9"]}

\* the changes made in the edit drawer
EditPatches == {[list |-> "To Buy"], [title |-> "coat"]}

\* String.prototype.includes on the model's hostnames
Includes(host, domain) ==
    \/ domain = "weidian.com"
          /\ host \in {"weidian.com", "shop.weidian.com", "notweidian.com",
                       "weidian.com.taobao.com"}
    \/ domain = "taobao.com"
          /\ host \in {"item.taobao.com", "taobao.com", "weidian.com.taobao.com"}

\* a complete product record, as an export holds it
SampleProduct(u, l) ==
    [uid |-> u, created_at |-> 1, list |-> l, shop_type |-> "weidian", id |-> "123",
     ref |-> "R9",
     mulebuy_url |-> <<"https://mulebuy.com/product/?shop_type=", "weidian", "&id=",
                       "123", "&ref=", "R9">>,
     title |-> "", seller |-> "", size |-> "", price |-> "", rating |-> 0,
     notes |-> "", tags |-> << >>, qc_links |-> << >>, images |-> << >>,
     _v |-> SCHEMA_VERSION]

\* a history entry written by an earlier session
OldEntry(i) ==
    [id |-> "123", ts |-> i, input |-> "https://weidian.com/item.html?itemID=123",
     shop_type |-> "weidian", ref |-> "R9",
     out |-> <<"https://mulebuy.com/product/?shop_type=", "weidian", "&id=", "123",
               "&ref=", "R9">>]

OldHistory(n) == [i \in 1..n |-> OldEntry(n + 1 - i)]

\* version-1 saved records: one complete, one without uid, created_at,
\* shop_type and mulebuy_url
LegacyFull ==
    [uid |-> 901, created_at |-> 1, shop_type |-> "taobao", id |-> "456", ref |-> "R9",
     mulebuy_url |-> <<"https://mulebuy.com/product/?shop_type=", "taobao", "&id=",
                       "456", "&ref=", "R9">>,
     title |-> "coat", notes |-> "", tags |-> <<"qc">>, qc_links |-> << >>,
     images |-> << >>]

LegacyBare == [id |-> "123"]

\* a store from its five slots
Store(p, st, h, ls, lh) ==
    [k \in LS |->
        CASE k = KeyProducts -> p
          [] k = KeySettings -> st
          [] k = KeyHistory -> h
          [] k = KeyLegacySaved -> ls
          [] OTHER -> lh]

StoredSettings ==
    JsonObj([defaultRef |-> "R9", defaultList |-> "To Buy", compactCards |-> TRUE])

\* what localStorage may hold when the page loads: every current-version
\* layout without legacy keys and with the two-record legacy layout, and every
\* legacy layout without current-version keys
InitStores ==
    LET v2 == { [p |-> Absent, s |-> Absent, h |-> Absent],
                [p |-> BadText, s |-> Absent, h |-> Absent],
                [p |-> JsonArr(<< >>), s |-> Absent, h |-> Absent],
                [p |-> JsonArr(<<SampleProduct(902, "Wishlist")>>),
                 s |-> StoredSettings, h |-> JsonArr(OldHistory(1))],
                [p |-> Absent, s |-> StoredSettings, h |-> Absent] }
        v1 == { [s |-> Absent, h |-> Absent],
                [s |-> JsonArr(<<LegacyFull, LegacyBare>>), h |-> JsonArr(OldHistory(2))],
                [s |-> JsonArr(<<LegacyFull>>), h |-> Absent],
                [s |-> JsonObj([saved |-> "x"]), h |-> JsonNull] }
        plain == [s |-> Absent, h |-> Absent]
        full == [s |-> JsonArr(<<LegacyFull, LegacyBare>>), h |-> JsonArr(OldHistory(2))]
        none == [p |-> Absent, s |-> Absent, h |-> Absent]
    IN  { Store(a.p, a.s, a.h, b.s, b.h) : a \in v2, b \in {plain, full} }
        \cup { Store(none.p, none.s, none.h, b.s, b.h) : b \in v1 }

\* stores of a long-used page: the history is at the cap or one below it, or
\* version 1 left a history one entry longer than the cap
LongHistoryStores ==
    { Store(JsonArr(<<SampleProduct(902, "Wishlist")>>), StoredSettings,
            JsonArr(OldHistory(n)), Absent, Absent) :
      n \in {HISTORY_CAP - 1, HISTORY_CAP} }
    \cup
    { Store(Absent, Absent, Absent, JsonArr(<<LegacyFull>>),
            JsonArr(OldHistory(HISTORY_CAP + 1))) }

\* stores the converter is exercised on: an empty one, one written by this
\* version with changed settings, one left by version 1
ConvertStores ==
    { Store(Absent, Absent, Absent, Absent, Absent),
      Store(JsonArr(<<SampleProduct(902, "Wishlist")>>), StoredSettings,
            JsonArr(OldHistory(1)), Absent, Absent),
      Store(Absent, Absent, Absent, JsonArr(<<LegacyFull, LegacyBare>>),
            JsonArr(OldHistory(2))) }

\* products as the "Nouveau" button creates them, filled in through the drawer
Filled(n, l, patch) ==
    [k \in {"uid", "created_at", "list", "shop_type", "id", "ref", "mulebuy_url", "title",
            "seller", "size", "price", "rating", "notes", "tags", "qc_links", "images",
            "_v"} |->
        IF k \in DOMAIN patch THEN patch[k]
        ELSE SampleProduct(n, l)[k]]

\* four of them: titles that differ by case or tie, prices that are numerals,
\* empty or text, with and without a tag
ListedProducts ==
    << Filled(1, "Wishlist", [created_at |-> 1, id |-> "", mulebuy_url |-> << >>,
                              title |-> "Coat", price |-> "10", tags |-> <<"qc">>]),
       Filled(2, "Wishlist", [created_at |-> 2, id |-> "", mulebuy_url |-> << >>,
                              title |-> "coat", price |-> "abc"]),
       Filled(3, "To Buy", [created_at |-> 3, id |-> "", mulebuy_url |-> << >>,
                            shop_type |-> "taobao", title |-> "hat", price |-> "5",
                            tags |-> <<"qc">>]),
       Filled(4, "Wishlist", [created_at |-> 4, id |-> "", mulebuy_url |-> << >>,
                              title |-> "hat", price |-> "", tags |-> <<"qc">>]) >>

\* the collections the lists tab is exercised on: the three Wishlist
\* products, or the last three products, in every order
ListedCollections ==
    LET n == 1..Len(ListedProducts)
    IN  { [i \in 1..3 |-> ListedProducts[f[i]]] :
            f \in {g \in [1..3 -> n] : {g[1], g[2], g[3]} \in {{1, 2, 4}, {2, 3, 4}}} }

\* a collection of one product that holds a local image
ImageCollections == { <<Filled(1, "Wishlist", [images |-> <<"img0">>])>> }

\* the data URLs of the files picked for a card
PickedFiles == { <<"imgA">>, <<"imgB">> }

\* what is typed into the search field
SearchInputs == {"", " Coat ", "r9", "t  w", "zz"}

\* ---------------------------------------------------------------- state
VARIABLES
    pc,          \* "start": page not loaded; "booted": first render done,
                 \* effects pending; "idle": waiting for an event
    storage,     \* localStorage: key -> slot
    clock,       \* uid()/Date draws so far
    products,    \* useState(boot.products)
    settings,    \* useState(boot.settings)
    history,     \* useState(boot.history)
    selection,   \* useState(new Set())
    activeList,  \* useState(settings.defaultList || "Wishlist")
    ref,         \* the converter's ref field
    conv,        \* << >> for null, else <<the last conversion>>
    convErr,     \* the converter's error message, "" when none
    editing,     \* << >> when the drawer is closed, else <<EditDrawer's local>>
    last,        \* the operation that produced this state, with its argument
                 \* (for an import: the kind of file, the file and the alert)
    boot,        \* bookkeeping of the migrateIfNeeded runs made in a row (no
                 \* operation of the page in between): how many (up to 2), the
                 \* path and the writes of the latest, the products slot it left
                 \* and the one the run before it left, the legacy slots found
                 \* by the first
    ops,         \* operations of the user so far
    search,      \* useState(""): the lists tab's search field
    tagFilter,   \* useState(""): the tag filter, "" for none
    sortId,      \* useState("created_at_desc")
    pending,     \* file reads in flight: the card that started each one (the
                 \* product as rendered then) and the data URLs it will yield
    added        \* base: the length of the history when it was loaded or
                 \* cleared; all: that history with every entry added since in
                 \* front, newest first, never cut

vars == <<pc, storage, clock, products, settings, history, selection,
          activeList, ref, conv, convErr, editing, last, boot, ops, added,
          search, tagFilter, sortId, pending>>

mem == <<products, settings, history, selection, activeList, ref, conv, convErr,
         editing>>

Op(name, arg) == [op |-> name, arg |-> arg]

NoBoot ==
    [runs |-> 0, path |-> "", writes |-> {}, after |-> Absent, prevAfter |-> Absent,
     legacy |-> <<Absent, Absent>>]

\* the page is about to load on `stores`
InitOn(stores) ==
    /\ pc = "start"
    /\ storage \in stores
    /\ clock = 0
    /\ products = << >>
    /\ settings = DEFAULT_SETTINGS
    /\ history = << >>
    /\ selection = {}
    /\ activeList = "Wishlist"
    /\ ref = ""
    /\ conv = << >>
    /\ convErr = ""
    /\ editing = << >>
    /\ last = Op("init", "")
    /\ boot = NoBoot
    /\ ops = 0
    /\ added = [base |-> 0, all |-> << >>]
    /\ search = ""
    /\ tagFilter = ""
    /\ sortId = "created_at_desc"
    /\ pending = {}

Init == InitOn(InitStores)

InitHistory == InitOn(LongHistoryStores)

InitConvert == InitOn(ConvertStores)

\* the page is loaded and idle on a stored collection
InitLoaded(collections) ==
    /\ pc = "idle"
    /\ products \in collections
    /\ storage = Store(StringifyArr(products), StringifyObj(DEFAULT_SETTINGS),
                       StringifyArr(<< >>), Absent, Absent)
    /\ clock = 0
    /\ settings = DEFAULT_SETTINGS
    /\ history = << >>
    /\ selection = {}
    /\ activeList = "Wishlist"
    /\ ref = DEFAULT_SETTINGS.defaultRef
    /\ conv = << >>
    /\ convErr = ""
    /\ editing = << >>
    /\ last = Op("mount", "")
    /\ boot = NoBoot
    /\ ops = 0
    /\ added = [base |-> 0, all |-> << >>]
    /\ search = ""
    /\ tagFilter = ""
    /\ sortId = "created_at_desc"
    /\ pending = {}

InitQuery == InitLoaded(ListedCollections)

InitImages == InitLoaded(ImageCollections)

\* ---------------------------------------------------------------- boot
\* App's first render: useMemo(() => migrateIfNeeded(), []) and the useState
\* initialisers
Migrate ==
    /\ pc = "start"
    /\ clock + MigrateDraws(storage) <= MaxClock
    /\ LET r == migrateIfNeeded(storage, clock)
       IN  /\ storage' = r.store
           /\ products' = r.products
           /\ settings' = r.settings
           /\ history' = r.history
           /\ activeList' = OrElse(r.settings, "defaultList", "", "Wishlist")
           /\ ref' = OrElse(r.settings, "defaultRef", "", DEFAULT_SETTINGS.defaultRef)
           /\ added' = [base |-> Len(r.history), all |-> r.history]
           /\ boot' = [runs |-> IF boot.runs < 2 THEN boot.runs + 1 ELSE 2,
                       path |-> r.path,
                       writes |-> r.writes,
                       after |-> r.store[KeyProducts],
                       prevAfter |-> boot.after,
                       legacy |-> IF boot.runs = 0
                                  THEN <<storage[KeyLegacySaved], storage[KeyLegacyHistory]>>
                                  ELSE boot.legacy]
    /\ clock' = clock + MigrateDraws(storage)
    /\ UNCHANGED ops
    /\ selection' = {}
    /\ conv' = << >>
    /\ convErr' = ""
    /\ editing' = << >>
    /\ pc' = "booted"
    /\ last' = Op("migrate", "")
    /\ search' = ""
    /\ tagFilter' = ""
    /\ sortId' = "created_at_desc"
    /\ pending' = {}

\* persistence that lacks the history effect
Effects_NoHistory(store, keys, ps, st, hs) ==
    LET s1 == IF KeyProducts \in keys
              THEN saveJSON(store, KeyProducts, StringifyArr(ps)) ELSE store
    IN  IF KeySettings \in keys
        THEN saveJSON(s1, KeySettings, StringifyObj(st)) ELSE s1

\* the effects the changed state values trigger: saveJSON of each value whose
\* setter ran (keys \subseteq {KeyProducts, KeySettings, KeyHistory})
Effects(store, keys, ps, st, hs) ==
    LET s1 == IF KeyProducts \in keys
              THEN saveJSON(store, KeyProducts, StringifyArr(ps)) ELSE store
        s2 == IF KeySettings \in keys
              THEN saveJSON(s1, KeySettings, StringifyObj(st)) ELSE s1
    IN  IF KeyHistory \in keys
        THEN saveJSON(s2, KeyHistory, StringifyArr(hs)) ELSE s2

\* the three persistence effects on mount
MountEffects ==
    /\ pc = "booted"
    /\ storage' = Effects(storage, {KeyProducts, KeySettings, KeyHistory},
                          products, settings, history)
    /\ pc' = "idle"
    /\ last' = Op("mount", "")
    /\ UNCHANGED <<clock, mem, boot, ops, added, search, tagFilter, sortId, pending>>

\* the page is closed and opened again: the in-memory state is gone
Reload ==
    /\ pc = "idle"
    /\ ops < MaxOps
    /\ ops' = ops + 1
    /\ pc' = "start"
    /\ products' = << >>
    /\ settings' = DEFAULT_SETTINGS
    /\ history' = << >>
    /\ selection' = {}
    /\ activeList' = "Wishlist"
    /\ ref' = ""
    /\ conv' = << >>
    /\ convErr' = ""
    /\ editing' = << >>
    /\ added' = [base |-> 0, all |-> << >>]
    /\ last' = Op("reload", "")
    /\ search' = ""
    /\ tagFilter' = ""
    /\ sortId' = "created_at_desc"
    /\ pending' = {}
    /\ UNCHANGED <<storage, clock, boot>>

\* an operation of the page counts, and ends the row of migrateIfNeeded runs
Counted == boot' = NoBoot /\ ops' = ops + 1

\* an operation outside the lists tab's filter controls that starts or ends no
\* file read
Touched == Counted /\ UNCHANGED <<search, tagFilter, sortId, pending>>

\* no drawer is open: the page's controls can be clicked
Page == pc = "idle" /\ editing = << >> /\ ops < MaxOps

\* the drawer's overlay covers the page
Drawer == pc = "idle" /\ editing /= << >> /\ ops < MaxOps

\* the state after the setters of `keys` ran and their effects persisted
Persist(keys, ps, st, hs) ==
    /\ products' = ps
    /\ settings' = st
    /\ history' = hs
    /\ storage' = Effects(storage, keys, ps, st, hs)
    /\ UNCHANGED pc

Commit(keys, ps, st, hs) == Persist(keys, ps, st, hs) /\ Touched

\* ---------------------------------------------------------------- converter
\* a parser that only asks whether the parameter is there: q.has(...)
parseShopUrl_HasParam(raw) ==
    IF Trim(raw.text) = ""
    THEN [ok |-> FALSE, err |-> "URL manquante."]
    ELSE IF ~raw.wellFormed
    THEN [ok |-> FALSE, err |-> "URL invalide."]
    ELSE IF Includes(raw.hostname, "weidian.com")
    THEN IF "itemID" \notin DOMAIN raw.query
         THEN [ok |-> FALSE, err |-> "itemID manquant pour Weidian."]
         ELSE [ok |-> TRUE, shop_type |-> "weidian", id |-> raw.query.itemID]
    ELSE IF Includes(raw.hostname, "taobao.com")
    THEN IF "id" \notin DOMAIN raw.query
         THEN [ok |-> FALSE, err |-> "id manquant pour Taobao."]
         ELSE [ok |-> TRUE, shop_type |-> "taobao", id |-> raw.query.id]
    ELSE [ok |-> FALSE, err |-> "Domaine non supporté (weidian.com ou taobao.com)."]

\* parseShopUrl(raw): the parsed pair, or the message of the Error thrown
parseShopUrl(raw) ==
    IF Trim(raw.text) = ""
    THEN [ok |-> FALSE, err |-> "URL manquante."]
    ELSE IF ~raw.wellFormed
    THEN [ok |-> FALSE, err |-> "URL invalide."]
    ELSE IF Includes(raw.hostname, "weidian.com")
    THEN IF OrElse(raw.query, "itemID", "", "") = ""
         THEN [ok |-> FALSE, err |-> "itemID manquant pour Weidian."]
         ELSE [ok |-> TRUE, shop_type |-> "weidian", id |-> raw.query.itemID]
    ELSE IF Includes(raw.hostname, "taobao.com")
    THEN IF OrElse(raw.query, "id", "", "") = ""
         THEN [ok |-> FALSE, err |-> "id manquant pour Taobao."]
         ELSE [ok |-> TRUE, shop_type |-> "taobao", id |-> raw.query.id]
    ELSE [ok |-> FALSE, err |-> "Domaine non supporté (weidian.com ou taobao.com)."]

\* the ref field is edited
SetRef(r) ==
    /\ Page
    /\ r /= ref
    /\ ref' = r
    /\ last' = Op("setRef", r)
    /\ Touched
    /\ UNCHANGED <<pc, storage, clock, products, settings, history, selection,
                   activeList, conv, convErr, editing, added>>

\* handleConvert() with `raw` in the URL field
handleConvert(raw) ==
    /\ Page
    /\ LET parsed == parseShopUrl(raw)
       IN  IF parsed.ok
           THEN LET url == toMulebuy(parsed.shop_type, parsed.id, ref)
                    pair == [shop_type |-> parsed.shop_type, id |-> parsed.id]
                    h == Spread(Spread([id |-> uid(clock + 1), ts |-> now(clock),
                                        input |-> raw.text], pair),
                                [ref |-> ref, out |-> url])
                IN  /\ clock < MaxClock
                    /\ clock' = clock + 1
                    /\ conv' = <<Spread(Spread([url |-> url], pair), [ref |-> ref])>>
                    /\ convErr' = ""
                    /\ added' = [added EXCEPT !.all = <<h>> \o added.all]
                    /\ Commit({KeyHistory}, products, settings,
                              Slice0(<<h>> \o history, HISTORY_CAP))
                    /\ last' = [op |-> "convert", arg |-> "ok", input |-> raw]
           ELSE /\ conv' = << >>
                /\ convErr' = parsed.err
                /\ Commit({}, products, settings, history)
                /\ last' = [op |-> "convert", arg |-> "error", input |-> raw]
                /\ UNCHANGED <<clock, added>>
    /\ UNCHANGED <<selection, activeList, ref, editing>>

\* the history's "Vider" button
ClearHistory ==
    /\ Page
    /\ Len(history) > 0
    /\ added' = [base |-> 0, all |-> << >>]
    /\ Commit({KeyHistory}, products, settings, << >>)
    /\ last' = Op("clearHistory", "")
    /\ UNCHANGED <<clock, selection, activeList, ref, conv, convErr, editing>>

\* newProductFromConv(conv, list) with the n-th uid
newProductFromConv(c, list, n) ==
    [uid |-> uid(n), created_at |-> now(n - 1),
     list |-> IF list /= "" /\ list /= UNDEF THEN list ELSE "Wishlist",
     shop_type |-> c.shop_type, id |-> c.id, ref |-> c.ref, mulebuy_url |-> c.url,
     title |-> "", seller |-> "", size |-> "", price |-> "", rating |-> 0,
     notes |-> "", tags |-> << >>, qc_links |-> << >>, images |-> << >>,
     _v |-> SCHEMA_VERSION]

\* newBlankProduct(ref, list) with the n-th uid
newBlankProduct(r, list, n) ==
    [uid |-> uid(n), created_at |-> now(n - 1),
     list |-> IF list /= "" /\ list /= UNDEF THEN list ELSE "Wishlist",
     shop_type |-> "weidian", id |-> "",
     ref |-> IF r /= "" /\ r /= UNDEF THEN r ELSE DEFAULT_SETTINGS.defaultRef,
     mulebuy_url |-> << >>,
     title |-> "(sans titre)", seller |-> "", size |-> "", price |-> "", rating |-> 0,
     notes |-> "", tags |-> << >>, qc_links |-> << >>, images |-> << >>,
     _v |-> SCHEMA_VERSION]

\* handleSaveConverted()
handleSaveConverted ==
    /\ Page
    /\ conv /= << >>
    /\ clock < MaxClock
    /\ Len(products) < MaxProducts
    /\ LET p == newProductFromConv(conv[1], Get(settings, "defaultList"), clock + 1)
       IN  /\ editing' = <<p>>
           /\ Commit({KeyProducts}, <<p>> \o products, settings, history)
    /\ clock' = clock + 1
    /\ last' = Op("saveConverted", "")
    /\ UNCHANGED <<selection, activeList, ref, conv, convErr, added>>

\* the "Nouveau" button
NewBlank ==
    /\ Page
    /\ clock < MaxClock
    /\ Len(products) < MaxProducts
    /\ LET p == newBlankProduct(Get(settings, "defaultRef"), activeList, clock + 1)
       IN  /\ editing' = <<p>>
           /\ Commit({KeyProducts}, <<p>> \o products, settings, history)
    /\ clock' = clock + 1
    /\ last' = Op("newBlank", "")
    /\ UNCHANGED <<selection, activeList, ref, conv, convErr, added>>

\* ---------------------------------------------------------------- query
\* the characters of the strings the lists tab is exercised with
Chars(s) ==
    CASE s = "" -> << >>
      [] s = "Coat" -> <<"C", "o", "a", "t">>
      [] s = "coat" -> <<"c", "o", "a", "t">>
      [] s = "hat" -> <<"h", "a", "t">>
      [] s = "qc" -> <<"q", "c">>
      [] s = "R9" -> <<"R", "9">>
      [] s = "r9" -> <<"r", "9">>
      [] s = "t  w" -> <<"t", " ", " ", "w">>
      [] s = "zz" -> <<"z", "z">>
      [] s = "5" -> <<"5">>
      [] s = "10" -> <<"1", "0">>
      [] s = "abc" -> <<"a", "b", "c">>
      [] s = "weidian" -> <<"w", "e", "i", "d", "i", "a", "n">>
      [] s = "taobao" -> <<"t", "a", "o", "b", "a", "o">>
      [] OTHER -> <<s>>

\* String.prototype.toLowerCase, character by character
ToLowerCase(cs) ==
    [i \in 1..Len(cs) |->
        CASE cs[i] = "C" -> "c"
          [] cs[i] = "R" -> "r"
          [] OTHER -> cs[i]]

\* String.prototype.includes on characters
IncludesChars(hay, q) ==
    \E i \in 0..(Len(hay) - Len(q)) : SubSeq(hay, i + 1, i + Len(q)) = q

\* the characters a field contributes to join(" "): none for undefined
FieldChars(p, k) ==
    IF k \notin DOMAIN p \/ p[k] = UNDEF THEN << >> ELSE Chars(p[k])

\* the characters of a text kept as pieces
RECURSIVE TextChars(_)
TextChars(t) == IF t = << >> THEN << >> ELSE Chars(Head(t)) \o TextChars(Tail(t))

\* " " + tag for each tag: the tail of the joined array
RECURSIVE TagsChars(_)
TagsChars(tags) ==
    IF tags = << >> THEN << >> ELSE <<" ">> \o Chars(Head(tags)) \o TagsChars(Tail(tags))

\* [p.title, p.notes, p.shop_type, p.id, p.seller, p.size, p.ref,
\*  p.mulebuy_url, ...(p.tags||[])].join(" ").toLowerCase()
Hay(p) ==
    ToLowerCase(FieldChars(p, "title") \o <<" ">> \o FieldChars(p, "notes") \o <<" ">>
                \o FieldChars(p, "shop_type") \o <<" ">> \o FieldChars(p, "id") \o <<" ">>
                \o FieldChars(p, "seller") \o <<" ">> \o FieldChars(p, "size") \o <<" ">>
                \o FieldChars(p, "ref") \o <<" ">> \o TextChars(ArrOf(p, "mulebuy_url"))
                \o TagsChars(ArrOf(p, "tags")))

\* the three .filter() calls of `filtered`, each on the array the one before
\* returned
Kept(ps, al, tf, srch) ==
    LET inList(p) == IF al /= "" THEN Get(p, "list") = al ELSE TRUE
        hasTag(p) == IF tf /= "" THEN \E i \in 1..Len(ArrOf(p, "tags")) : p.tags[i] = tf
                     ELSE TRUE
        q == ToLowerCase(Chars(Trim(srch)))
        found(p) == IF q = << >> THEN TRUE ELSE IncludesChars(Hay(p), q)
    IN  SelectSeq(SelectSeq(SelectSeq(ps, inList), hasTag), found)

\* the ids of SORTS
SORTS ==
    {"created_at_desc", "created_at_asc", "title_asc", "title_desc", "price_asc",
     "price_desc", "shop_type"}

\* Number(price || 0): a number, or NaN for text that is no numeral
NaN == [nan |-> TRUE]
Number(price) ==
    CASE price = "" -> [nan |-> FALSE, v |-> 0]
      [] price = "5" -> [nan |-> FALSE, v |-> 5]
      [] price = "10" -> [nan |-> FALSE, v |-> 10]
      [] OTHER -> NaN

\* x - y on Numbers
Minus(x, y) == IF x.nan \/ y.nan THEN NaN ELSE [nan |-> FALSE, v |-> x.v - y.v]

\* the rank of a string in the locale's collation
Collate(s) ==
    CASE s = "" \/ s = UNDEF -> 0
      [] s = "coat" -> 1
      [] s = "Coat" -> 2
      [] s = "hat" -> 3
      [] s = "taobao" -> 4
      [] s = "weidian" -> 5
      [] OTHER -> 6

\* a.localeCompare(b) on ranks
LocaleCompare(x, y) == [nan |-> FALSE, v |-> x - y]

\* a comparator that takes text for 0: Number(price) || 0
bySort_NaNAsZero(sid, a, b) ==
    LET num(p) == IF Number(OrElse(p, "price", "", "")).nan THEN [nan |-> FALSE, v |-> 0]
                  ELSE Number(OrElse(p, "price", "", ""))
    IN  CASE sid = "created_at_desc" -> LocaleCompare(OrElse(b, "created_at", 0, 0), OrElse(a, "created_at", 0, 0))
          [] sid = "created_at_asc" -> LocaleCompare(OrElse(a, "created_at", 0, 0), OrElse(b, "created_at", 0, 0))
          [] sid = "title_asc" -> LocaleCompare(Collate(Get(a, "title")), Collate(Get(b, "title")))
          [] sid = "title_desc" -> LocaleCompare(Collate(Get(b, "title")), Collate(Get(a, "title")))
          [] sid = "price_asc" -> Minus(num(a), num(b))
          [] sid = "price_desc" -> Minus(num(b), num(a))
          [] sid = "shop_type" -> LocaleCompare(Collate(Get(a, "shop_type")), Collate(Get(b, "shop_type")))
          [] OTHER -> [nan |-> FALSE, v |-> 0]

\* bySort(sortId)(a, b)
bySort(sid, a, b) ==
    LET num(p) == Number(OrElse(p, "price", "", ""))
    IN  CASE sid = "created_at_desc" -> LocaleCompare(OrElse(b, "created_at", 0, 0), OrElse(a, "created_at", 0, 0))
          [] sid = "created_at_asc" -> LocaleCompare(OrElse(a, "created_at", 0, 0), OrElse(b, "created_at", 0, 0))
          [] sid = "title_asc" -> LocaleCompare(Collate(Get(a, "title")), Collate(Get(b, "title")))
          [] sid = "title_desc" -> LocaleCompare(Collate(Get(b, "title")), Collate(Get(a, "title")))
          [] sid = "price_asc" -> Minus(num(a), num(b))
          [] sid = "price_desc" -> Minus(num(b), num(a))
          [] sid = "shop_type" -> LocaleCompare(Collate(Get(a, "shop_type")), Collate(Get(b, "shop_type")))
          [] OTHER -> [nan |-> FALSE, v |-> 0]

\* what Array.prototype.sort makes of the comparator's result: NaN counts as 0
SortCompare(sid, a, b) == IF bySort(sid, a, b).nan THEN 0 ELSE bySort(sid, a, b).v

\* the comparator is a consistent comparison function on the elements of arr
Consistent(arr, sid) ==
    LET c(i, j) == SortCompare(sid, arr[i], arr[j])
        n == 1..Len(arr)
    IN  /\ \A i, j \in n : (c(i, j) < 0) = (c(j, i) > 0)
        /\ \A i, j, k \in n : (c(i, j) = 0 /\ c(j, k) = 0) => c(i, k) = 0
        /\ \A i, j, k \in n : (c(i, j) < 0 /\ c(j, k) = 0) => c(i, k) < 0
        /\ \A i, j, k \in n : (c(i, j) = 0 /\ c(j, k) < 0) => c(i, k) < 0
        /\ \A i, j, k \in n : (c(i, j) < 0 /\ c(j, k) < 0) => c(i, k) < 0

\* a stable sort: each element goes behind the elements that do not come
\* after it
RECURSIVE StableSort(_, _)
StableSort(arr, sid) ==
    IF arr = << >> THEN << >>
    ELSE LET done == StableSort(SubSeq(arr, 1, Len(arr) - 1), sid)
             x == arr[Len(arr)]
             before == {i \in 1..Len(done) : SortCompare(sid, done[i], x) <= 0}
             at == IF before = {} THEN 0 ELSE CHOOSE i \in before : \A j \in before : j <= i
         IN  SubSeq(done, 1, at) \o <<x>> \o SubSeq(done, at + 1, Len(done))

\* the orders of arr
Orders(arr) ==
    LET n == 1..Len(arr)
    IN  { [i \in n |-> arr[f[i]]] : f \in {g \in [n -> n] : \A i, j \in n : g[i] = g[j] => i = j} }

\* the arrays arr.sort(bySort(sortId)) can leave: the stable order under a
\* consistent comparator, an implementation-defined order otherwise
SortOutcomes(arr, sid) ==
    IF Consistent(arr, sid) THEN {StableSort(arr, sid)} ELSE Orders(arr)

\* a memo that leaves out the tag filter
filtered_NoTagFilter(ps, al, tf, srch, sid) == SortOutcomes(Kept(ps, al, "", srch), sid)

\* the `filtered` memo: the arrays it can return
filtered(ps, al, tf, srch, sid) == SortOutcomes(Kept(ps, al, tf, srch), sid)

\* ---------------------------------------------------------------- lists tab
\* the search field
SetSearch(text) ==
    /\ Page
    /\ text /= search
    /\ search' = text
    /\ last' = Op("setSearch", text)
    /\ Counted
    /\ UNCHANGED <<pc, storage, clock, mem, added, tagFilter, sortId, pending>>

\* Array.from(new Set(products.flatMap(p => p.tags || []))): the tags the
\* filter offers
allTags(ps) == {t \in {"qc"} : \E i \in 1..Len(ps) : \E j \in 1..Len(ArrOf(ps[i], "tags")) : ps[i].tags[j] = t}

\* the TagFilter select
SetTagFilter(t) ==
    /\ Page
    /\ t /= tagFilter
    /\ t = "" \/ t \in allTags(products)
    /\ tagFilter' = t
    /\ last' = Op("setTagFilter", t)
    /\ Counted
    /\ UNCHANGED <<pc, storage, clock, mem, added, search, sortId, pending>>

\* the sort Select
SetSortId(sid) ==
    /\ Page
    /\ sid /= sortId
    /\ sortId' = sid
    /\ last' = Op("setSortId", sid)
    /\ Counted
    /\ UNCHANGED <<pc, storage, clock, mem, added, search, tagFilter, pending>>

\* the card of products[i] is rendered (search and tag filter left empty)
Shown(i) == i \in 1..Len(products) /\ Get(products[i], "list") = activeList

\* the active-list Select
SetActiveList(l) ==
    /\ Page
    /\ l /= activeList
    /\ activeList' = l
    /\ last' = Op("setActiveList", l)
    /\ Touched
    /\ UNCHANGED <<pc, storage, clock, products, settings, history, selection,
                   ref, conv, convErr, editing, added>>

\* toggleSelect(uid): the card's checkbox
toggleSelect(i) ==
    /\ Page
    /\ Shown(i)
    /\ LET u == products[i].uid
       IN  selection' = IF u \in selection THEN selection \ {u} ELSE selection \cup {u}
    /\ last' = Op("toggleSelect", "")
    /\ Touched
    /\ UNCHANGED <<pc, storage, clock, products, settings, history, activeList,
                   ref, conv, convErr, editing, added>>

\* clearSelection(): the bulk bar's "Annuler"
clearSelection ==
    /\ Page
    /\ selection /= {}
    /\ selection' = {}
    /\ last' = Op("clearSelection", "")
    /\ Touched
    /\ UNCHANGED <<pc, storage, clock, products, settings, history, activeList,
                   ref, conv, convErr, editing, added>>

\* the card's "Del" button: prev.filter(x => x.uid !== p.uid)
DeleteOne(i) ==
    /\ Page
    /\ Shown(i)
    /\ LET keep(x) == x.uid /= products[i].uid
       IN  Commit({KeyProducts}, SelectSeq(products, keep), settings, history)
    /\ last' = Op("deleteOne", "")
    /\ UNCHANGED <<clock, selection, activeList, ref, conv, convErr, editing, added>>

\* the card's "Edit" button or a double click: setEditing(p)
OpenCard(i) ==
    /\ Page
    /\ Shown(i)
    /\ editing' = <<products[i]>>
    /\ last' = Op("open", "")
    /\ Touched
    /\ UNCHANGED <<pc, storage, clock, products, settings, history, selection,
                   activeList, ref, conv, convErr, added>>

\* ---------------------------------------------------------------- card images
\* the card's onUpdate(patch), the card having been rendered for product p:
\* prev.map(x => x.uid === p.uid ? {...x, ...patch} : x)
onUpdate(ps, p, patch) ==
    [i \in 1..Len(ps) |-> IF ps[i].uid = p.uid THEN Spread(ps[i], patch) ELSE ps[i]]

\* addImagesFromFiles(fileList) up to its await: the file reads start; the
\* function keeps the p of the render it was called in
StartImport(i, urls) ==
    /\ Page
    /\ Shown(i)
    /\ ~settings.compactCards
    /\ [p |-> products[i], urls |-> urls] \notin pending
    /\ pending' = pending \cup {[p |-> products[i], urls |-> urls]}
    /\ last' = Op("startImport", "")
    /\ Counted
    /\ UNCHANGED <<pc, storage, clock, mem, added, search, tagFilter, sortId>>

\* addImagesFromFiles after its await: the reads of e are done and
\* onUpdate({ images: [...(p.images||[]), ...dataUrls] }) runs
CompleteImport(e) ==
    /\ pc = "idle"
    /\ e \in pending
    /\ pending' = pending \ {e}
    /\ Persist({KeyProducts},
               onUpdate(products, e.p, [images |-> ArrOf(e.p, "images") \o e.urls]),
               settings, history)
    /\ last' = [op |-> "imagesRead", arg |-> "", entry |-> e]
    /\ UNCHANGED <<clock, selection, activeList, ref, conv, convErr, editing, added,
                   boot, ops, search, tagFilter, sortId>>

\* the "×" on the j-th image of the card of products[i]:
\* onUpdate({ images: p.images.filter((_, k) => k !== j) })
RemoveImage(i, j) ==
    /\ Page
    /\ Shown(i)
    /\ ~settings.compactCards
    /\ j \in 1..Len(ArrOf(products[i], "images"))
    /\ LET imgs == products[i].images
           left == SubSeq(imgs, 1, j - 1) \o SubSeq(imgs, j + 1, Len(imgs))
       IN  Commit({KeyProducts}, onUpdate(products, products[i], [images |-> left]),
                  settings, history)
    /\ last' = Op("removeImage", "")
    /\ UNCHANGED <<clock, selection, activeList, ref, conv, convErr, editing, added>>

\* ---------------------------------------------------------------- bulk
\* bulkDelete's update: prev.filter(p => !selection.has(p.uid))
bulkDelete(ps, sel) ==
    LET keep(x) == x.uid \notin sel
    IN  SelectSeq(ps, keep)

\* bulkMove's update: prev.map(p => selection.has(p.uid) ? {...p, list} : p)
bulkMove(ps, sel, listName) ==
    [i \in 1..Len(ps) |->
        IF ps[i].uid \in sel THEN Spread(ps[i], [list |-> listName]) ELSE ps[i]]

\* a tag update that pushes without looking: [...tags, tag]
bulkAddTag_Push(ps, sel, tag) ==
    [i \in 1..Len(ps) |->
        IF ps[i].uid \in sel
        THEN Spread(ps[i], [tags |-> Append(ArrOf(ps[i], "tags"), tag)])
        ELSE ps[i]]

\* bulkAddTag's update:
\* prev.map(p => selection.has(p.uid) ? {...p, tags: Array.from(new Set([...tags, tag]))} : p)
bulkAddTag(ps, sel, tag) ==
    [i \in 1..Len(ps) |->
        IF ps[i].uid \in sel
        THEN Spread(ps[i], [tags |-> Dedup(Append(ArrOf(ps[i], "tags"), tag))])
        ELSE ps[i]]

\* the bulk bar's "Supprimer" or the Delete key, and the answer to confirm()
BulkDelete(yes) ==
    /\ pc = "idle"
    /\ ops < MaxOps
    /\ selection /= {}
    /\ IF yes
       THEN /\ Commit({KeyProducts}, bulkDelete(products, selection), settings, history)
            /\ selection' = {}
       ELSE /\ Commit({}, products, settings, history)
            /\ UNCHANGED selection
    /\ last' = Op("bulkDelete", IF yes THEN "yes" ELSE "no")
    /\ UNCHANGED <<clock, activeList, ref, conv, convErr, editing, added>>

\* bulkMove(listName)
BulkMove(listName) ==
    /\ Page
    /\ selection /= {}
    /\ Commit({KeyProducts}, bulkMove(products, selection, listName), settings, history)
    /\ selection' = {}
    /\ last' = Op("bulkMove", listName)
    /\ UNCHANGED <<clock, activeList, ref, conv, convErr, editing, added>>

\* the bulk bar's tag "OK" button with `raw` in its field:
\* if (tag.trim()) onAddTag(tag.trim()), and bulkAddTag returns on an empty tag
BulkAddTag(raw) ==
    /\ Page
    /\ selection /= {}
    /\ IF Trim(raw) /= ""
       THEN Commit({KeyProducts}, bulkAddTag(products, selection, Trim(raw)), settings,
                   history)
       ELSE Commit({}, products, settings, history)
    /\ last' = Op("bulkAddTag", Trim(raw))
    /\ UNCHANGED <<clock, selection, activeList, ref, conv, convErr, editing, added>>

\* ---------------------------------------------------------------- drawer
\* a field of the drawer is edited: setLocal(v => ({...v, ...patch}))
EditLocal(patch) ==
    /\ Drawer
    /\ Spread(editing[1], patch) /= editing[1]
    /\ editing' = <<Spread(editing[1], patch)>>
    /\ last' = Op("editLocal", "")
    /\ Touched
    /\ UNCHANGED <<pc, storage, clock, products, settings, history, selection,
                   activeList, ref, conv, convErr, added>>

\* apply(): onChange(local); onClose()
\* onChange = patch => setProducts(prev => prev.map(x => x.uid === editing.uid ? {...x, ...patch} : x))
EditApply ==
    /\ Drawer
    /\ LET local == editing[1]
       IN  Commit({KeyProducts},
                  [i \in 1..Len(products) |->
                      IF products[i].uid = local.uid THEN Spread(products[i], local)
                      ELSE products[i]],
                  settings, history)
    /\ editing' = << >>
    /\ last' = Op("editApply", "")
    /\ UNCHANGED <<clock, selection, activeList, ref, conv, convErr, added>>

\* "Fermer", "Annuler", the overlay or Escape
CloseDrawer ==
    /\ Drawer
    /\ editing' = << >>
    /\ last' = Op("closeDrawer", "")
    /\ Touched
    /\ UNCHANGED <<pc, storage, clock, products, settings, history, selection,
                   activeList, ref, conv, convErr, added>>

\* ---------------------------------------------------------------- settings tab
\* a settings field changes: setSettings(v => ({...v, ...patch}))
SetSettings(patch) ==
    /\ Page
    /\ Spread(settings, patch) /= settings
    /\ Commit({KeySettings}, products, Spread(settings, patch), history)
    /\ last' = Op("setSettings", "")
    /\ UNCHANGED <<clock, selection, activeList, ref, conv, convErr, editing, added>>

\* "Réinitialiser" and the answer to confirm()
ResetData(yes) ==
    /\ Page
    /\ IF yes THEN Commit({KeyProducts}, << >>, settings, history)
       ELSE Commit({}, products, settings, history)
    /\ last' = Op("reset", IF yes THEN "yes" ELSE "no")
    /\ UNCHANGED <<clock, selection, activeList, ref, conv, convErr, editing, added>>

\* an export of the products on screen only
ExportDoc_Shown(st, ps) ==
    LET shown(x) == Get(x, "list") = activeList
    IN  JsonObj([settings |-> StringifyObj(st), products |-> StringifyArr(SelectSeq(ps, shown))])

\* the export modal's text: JSON.stringify({ settings, products }, null, 2),
\* as the JSON value the text denotes
ExportDoc(st, ps) ==
    JsonObj([settings |-> StringifyObj(st), products |-> StringifyArr(ps)])

\* files picked for import, besides the current export
ImportDocs ==
    { BadText,
      JsonNull,
      JsonArr(<<SampleProduct(903, "Wishlist"), SampleProduct(903, NotAList)>>),
      JsonObj([products |-> JsonArr(<<SampleProduct(904, "To Buy")>>),
               settings |-> JsonObj([defaultList |-> NotAList])]) }

\* an import that merges the settings only when it took no products: else if
ImportResult_ElseIf(doc, ps, st) ==
    IF doc.t = "bad" \/ doc.t = "null"
    THEN [alert |-> "Import invalide", keys |-> {}, products |-> ps, settings |-> st]
    ELSE IF IsArray(doc)
    THEN [alert |-> "Import réussi", keys |-> {KeyProducts}, products |-> doc.v,
          settings |-> st]
    ELSE LET hasP == "products" \in DOMAIN doc.v /\ IsArray(doc.v.products)
             hasS == ~hasP /\ "settings" \in DOMAIN doc.v /\ Truthy(doc.v.settings)
         IN  [alert |-> "Import réussi",
              keys |-> (IF hasP THEN {KeyProducts} ELSE {})
                       \cup (IF hasS THEN {KeySettings} ELSE {}),
              products |-> IF hasP THEN doc.v.products.v ELSE ps,
              settings |-> IF hasS THEN Spread(st, doc.v.settings.v) ELSE st]

\* reader.onload on a file whose text denotes `doc`: the alert, the setters
\* that ran (as the keys of their state) and the state they produce
ImportResult(doc, ps, st) ==
    IF doc.t = "bad" \/ doc.t = "null"
    THEN [alert |-> "Import invalide", keys |-> {}, products |-> ps, settings |-> st]
    ELSE IF IsArray(doc)
    THEN [alert |-> "Import réussi", keys |-> {KeyProducts}, products |-> doc.v,
          settings |-> st]
    ELSE LET hasP == "products" \in DOMAIN doc.v /\ IsArray(doc.v.products)
             hasS == "settings" \in DOMAIN doc.v /\ Truthy(doc.v.settings)
         IN  [alert |-> "Import réussi",
              keys |-> (IF hasP THEN {KeyProducts} ELSE {})
                       \cup (IF hasS THEN {KeySettings} ELSE {}),
              products |-> IF hasP THEN doc.v.products.v ELSE ps,
              settings |-> IF hasS THEN Spread(st, doc.v.settings.v) ELSE st]

\* what kind of file `doc` is
DocKind(doc) ==
    CASE doc = ExportDoc(settings, products) -> "export"
      [] doc.t = "bad" -> "bad"
      [] doc.t = "null" -> "null"
      [] doc.t = "array" -> "array"
      [] OTHER -> "object"

\* ImportButton.onPick and reader.onload
Import(doc) ==
    /\ Page
    /\ LET r == ImportResult(doc, products, settings)
       IN  /\ Commit(r.keys, r.products, r.settings, history)
           /\ last' = [op |-> "import", arg |-> DocKind(doc), alert |-> r.alert,
                       doc |-> doc]
    /\ UNCHANGED <<clock, selection, activeList, ref, conv, convErr, editing, added>>

Next ==
    \/ Migrate
    \/ MountEffects
    \/ Reload
    \/ \E r \in RefInputs : SetRef(r)
    \/ \E u \in InputUrls : handleConvert(u)
    \/ ClearHistory
    \/ handleSaveConverted
    \/ NewBlank
    \/ \E l \in UsedLists : SetActiveList(l)
    \/ \E i \in 1..Len(products) : toggleSelect(i)
    \/ clearSelection
    \/ \E i \in 1..Len(products) : DeleteOne(i)
    \/ \E i \in 1..Len(products) : OpenCard(i)
    \/ \E yes \in BOOLEAN : BulkDelete(yes)
    \/ \E l \in UsedLists \cup {NotAList} : BulkMove(l)
    \/ \E raw \in TagInputs : BulkAddTag(raw)
    \/ \E patch \in EditPatches : EditLocal(patch)
    \/ EditApply
    \/ CloseDrawer
    \/ \E patch \in SettingsPatches : SetSettings(patch)
    \/ \E yes \in BOOLEAN : ResetData(yes)
    \/ \E doc \in ImportDocs \cup {ExportDoc(settings, products)} : Import(doc)

Spec == Init /\ [][Next]_vars

\* the converter tab (with the drawer that saving a conversion opens)
NextConverter ==
    \/ Migrate
    \/ MountEffects
    \/ Reload
    \/ \E r \in RefInputs : SetRef(r)
    \/ \E u \in InputUrls : handleConvert(u)
    \/ ClearHistory
    \/ handleSaveConverted
    \/ CloseDrawer

\* the converter tab on the stores of a long-used page
SpecHistory == InitHistory /\ [][NextConverter]_vars

\* the converter fed with every pasted text and referral code, and the default
\* referral code changed in the settings
NextConvert ==
    \/ Migrate
    \/ MountEffects
    \/ \E r \in RefInputs \cup MoreRefs : SetRef(r)
    \/ \E u \in InputUrls \cup MoreUrls : handleConvert(u)
    \/ handleSaveConverted
    \/ CloseDrawer
    \/ SetSettings([defaultRef |-> "R9"])

SpecConvert == InitConvert /\ [][NextConvert]_vars

\* the controls of the lists tab
NextQuery ==
    \/ \E l \in UsedLists : SetActiveList(l)
    \/ \E text \in SearchInputs : SetSearch(text)
    \/ \E t \in {"", "qc"} : SetTagFilter(t)
    \/ \E sid \in SORTS : SetSortId(sid)

SpecQuery == InitQuery /\ [][NextQuery]_vars

\* the cards' local images and the drawer
NextImages ==
    \/ \E i \in 1..Len(products) : \E urls \in PickedFiles : StartImport(i, urls)
    \/ \E e \in pending : CompleteImport(e)
    \/ \E i \in 1..Len(products) : \E j \in 1..2 : RemoveImage(i, j)
    \/ \E i \in 1..Len(products) : OpenCard(i)
    \/ \E patch \in EditPatches : EditLocal(patch)
    \/ EditApply
    \/ CloseDrawer

SpecImages == InitImages /\ [][NextImages]_vars

\* ---------------------------------------------------------------- claims
\* C1: running the startup migration twice in a row is a no-op the second
\* time: the second run writes nothing, the current-version products key
\* holds what the first run left, and the legacy keys are as they were.
C1_SecondMigrationNoOp ==
    (pc = "booted" /\ boot.runs = 2) =>
        /\ boot.writes = {}
        /\ storage[KeyProducts] = boot.prevAfter
        /\ <<storage[KeyLegacySaved], storage[KeyLegacyHistory]>> = boot.legacy

\* a second run in a row, on a store whose legacy array was migrated by the
\* first and is still there
C1_Witness ==
    /\ pc = "booted"
    /\ boot.runs = 2
    /\ storage[KeyLegacySaved].t = "array"
    /\ storage[KeyProducts].t = "array"
    /\ Len(storage[KeyProducts].v) = Len(storage[KeyLegacySaved].v)

\* C2: with the current-version products key absent and a legacy array,
\* migration yields one product per legacy record in order, on the default
\* list, with the legacy uid / created_at / mulebuy_url kept when present
\* (generated or recomputed otherwise) and the schema version tag; it stores
\* the products and the legacy history (or an empty one) under the
\* current-version keys and returns the same state in memory.
C2_LegacyMigration ==
    [][(pc = "start" /\ storage[KeyProducts].t = "absent"
            /\ storage[KeyLegacySaved].t = "array") =>
        LET legacy == storage[KeyLegacySaved].v
            lh == storage[KeyLegacyHistory]
            kept(i, k, zero) == k \in DOMAIN legacy[i] /\ legacy[i][k] /= zero
        IN  /\ Len(products') = Len(legacy)
            /\ \A i \in 1..Len(legacy) :
                  LET p == products'[i]
                  IN  /\ p.list = DEFAULT_SETTINGS.defaultList
                      /\ p._v = SCHEMA_VERSION
                      /\ IF kept(i, "uid", 0) THEN p.uid = legacy[i].uid
                         ELSE /\ p.uid \in (clock + 1)..clock'
                              /\ \A j \in 1..Len(legacy) : j /= i => products'[j].uid /= p.uid
                      /\ IF kept(i, "created_at", 0) THEN p.created_at = legacy[i].created_at
                         ELSE p.created_at /= 0
                      /\ IF kept(i, "mulebuy_url", << >>)
                         THEN p.mulebuy_url = legacy[i].mulebuy_url
                         ELSE p.mulebuy_url =
                                toMulebuy(p.shop_type, p.id,
                                          IF kept(i, "ref", "") THEN legacy[i].ref ELSE "")
            /\ storage'[KeyProducts] = StringifyArr(products')
            /\ storage'[KeyHistory] = (IF lh.t = "array" THEN lh ELSE JsonArr(<< >>))
            /\ history' = storage'[KeyHistory].v
            /\ storage'[KeyLegacySaved] = storage[KeyLegacySaved]
            /\ storage'[KeyLegacyHistory] = storage[KeyLegacyHistory]
      ]_vars

\* two legacy records were migrated, one of them getting a generated uid
C2_Witness ==
    /\ pc = "booted"
    /\ boot.path = "migrated"
    /\ Len(products) = 2
    /\ products[1].uid = 901
    /\ products[2].uid = clock
    /\ storage[KeyHistory] = storage[KeyLegacyHistory]

\* C3: no two products of the collection have the same identifier.
C3_UniqueIds ==
    \A i, j \in 1..Len(products) : i /= j => products[i].uid /= products[j].uid

\* C4: every product's list is a member of the fixed list set.
C4_ListsValid ==
    \A i \in 1..Len(products) : Get(products[i], "list") \in ListSet

\* C5: a bulk move to a string that is no list leaves every product's list
\* as it was.
C5_MoveToInvalidRejected ==
    [][(last'.op = "bulkMove" /\ last'.arg \notin ListSet) =>
        /\ Len(products') = Len(products)
        /\ \A i \in 1..Len(products) : products'[i].list = products[i].list
      ]_vars

\* occurrences of x in the sequence s
Count(s, x) == Cardinality({i \in 1..Len(s) : s[i] = x})

\* C6: adding a non-empty tag to the selection a second time changes nothing;
\* after the first time every selected product holds the tag exactly once and
\* every other product is as it was.
C6_AddTagIdempotent ==
    [][(last'.op = "bulkAddTag" /\ last'.arg /= "") =>
        /\ bulkAddTag(products', selection', last'.arg) = products'
        /\ Len(products') = Len(products)
        /\ \A i \in 1..Len(products) :
              IF products[i].uid \in selection
              THEN Count(products'[i].tags, last'.arg) = 1
              ELSE products'[i] = products[i]
      ]_vars

\* the tag was added to a selected product, beside a product left alone
C6_Witness ==
    /\ last.op = "bulkAddTag"
    /\ last.arg = "qc"
    /\ \E i \in 1..Len(products) :
          products[i].uid \in selection /\ Count(products[i].tags, "qc") = 1
    /\ \E i \in 1..Len(products) : products[i].uid \notin selection

Min(a, b) == IF a <= b THEN a ELSE b

\* C7: starting from a history of at most 400 entries, after any number of
\* conversions the history holds min(400, previous + N) entries: the most
\* recently added ones, newest first, the oldest having been dropped.
C7_HistoryCap ==
    added.base <= HISTORY_CAP =>
        LET n == Len(added.all)
            new == n - added.base
        IN  /\ Len(history) = Min(HISTORY_CAP, n)
            /\ history = SubSeq(added.all, 1, Len(history))
            /\ \A i, j \in 1..Min(new, Len(history)) :
                  i < j => history[i].ts > history[j].ts

\* a conversion pushed the oldest entry out of a full history
C7_Witness ==
    /\ last.op = "convert"
    /\ last.arg = "ok"
    /\ added.base <= HISTORY_CAP
    /\ Len(added.all) > HISTORY_CAP
    /\ Len(history) = HISTORY_CAP

\* a and b read the same under every key (a key holding undefined reads as a
\* missing key does)
SameObject(a, b) ==
    \A k \in (DOMAIN a) \cup (DOMAIN b) :
        \/ k \in DOMAIN a /\ k \in DOMAIN b /\ a[k] = b[k]
        \/ k \notin DOMAIN a /\ k \notin DOMAIN b
        \/ k \notin DOMAIN a /\ k \in MaybeUndef /\ b[k] = UNDEF
        \/ k \notin DOMAIN b /\ k \in MaybeUndef /\ a[k] = UNDEF

\* C8: importing the document just exported leaves the same products, in the
\* same order, and the same settings.
C8_ExportImportRoundTrip ==
    [][(last'.op = "import" /\ last'.arg = "export") =>
        /\ Len(products') = Len(products)
        /\ \A i \in 1..Len(products) : SameObject(products'[i], products[i])
        /\ settings' = settings
      ]_vars

\* the export of a collection with a product that holds an undefined field
\* and of changed settings was imported
C8_Witness ==
    /\ last.op = "import"
    /\ last.arg = "export"
    /\ settings /= DEFAULT_SETTINGS
    /\ Len(products) = 2
    /\ \E i \in 1..Len(products) : "shop_type" \notin DOMAIN products[i]

\* the file carries a products array and a settings object
CarriesBoth(doc) ==
    /\ doc.t = "object"
    /\ "products" \in DOMAIN doc.v
    /\ doc.v.products.t = "array"
    /\ "settings" \in DOMAIN doc.v
    /\ doc.v.settings.t = "object"

\* C9: an import of text that is no JSON reports an error and leaves the
\* products, the settings and the stored keys as they were; an import of a
\* file that carries both products and settings applies both.
C9_ImportAllOrNothing ==
    [][last'.op = "import" =>
        /\ last'.doc.t = "bad" =>
              /\ last'.alert = "Import invalide"
              /\ products' = products
              /\ settings' = settings
              /\ storage' = storage
        /\ CarriesBoth(last'.doc) =>
              /\ products' = last'.doc.v.products.v
              /\ settings' = Spread(settings, last'.doc.v.settings.v)
              /\ storage'[KeyProducts] = StringifyArr(products')
              /\ storage'[KeySettings] = StringifyObj(settings')
      ]_vars

\* an unparsable file was imported over a collection that holds a product
C9_Witness ==
    /\ last.op = "import"
    /\ last.doc.t = "bad"
    /\ last.alert = "Import invalide"
    /\ Len(products) > 0

\* C10: when no operation is in progress, each current-version key holds the
\* serialization of the in-memory value.
C10_StorageInSync ==
    pc = "idle" =>
        /\ storage[KeyProducts] = StringifyArr(products)
        /\ storage[KeySettings] = StringifyObj(settings)
        /\ storage[KeyHistory] = StringifyArr(history)

\* products, settings and history have all been changed since the page loaded
C10_Witness ==
    /\ pc = "idle"
    /\ last.op = "convert"
    /\ last.arg = "ok"
    /\ Len(products) > 0
    /\ products[1].uid \in 1..clock
    /\ storage[KeyLegacySaved].t = "array"
    /\ settings.defaultList = NotAList

\* the error kind a message of parseShopUrl stands for
ErrorKind(msg) ==
    CASE msg = "URL manquante." -> "EmptyInput"
      [] msg = "URL invalide." -> "MalformedUrl"
      [] msg \in {"itemID manquant pour Weidian.", "id manquant pour Taobao."} ->
            "MissingItemId"
      [] msg = "Domaine non supporté (weidian.com ou taobao.com)." -> "UnsupportedDomain"
      [] OTHER -> "none"

\* the outcome the classification rules give for a pasted text, the rules
\* taken in their order
Classified(raw) ==
    LET param(k) == IF k \in DOMAIN raw.query THEN raw.query[k] ELSE ""
    IN  IF Trim(raw.text) = "" THEN [kind |-> "EmptyInput"]
        ELSE IF ~raw.wellFormed THEN [kind |-> "MalformedUrl"]
        ELSE IF Includes(raw.hostname, "weidian.com")
        THEN IF param("itemID") = "" THEN [kind |-> "MissingItemId"]
             ELSE [kind |-> "ok", shop_type |-> "weidian", id |-> param("itemID")]
        ELSE IF Includes(raw.hostname, "taobao.com")
        THEN IF param("id") = "" THEN [kind |-> "MissingItemId"]
             ELSE [kind |-> "ok", shop_type |-> "taobao", id |-> param("id")]
        ELSE [kind |-> "UnsupportedDomain"]

\* C11: a conversion ends in exactly the outcome the classification rules
\* give for the pasted text: one of the four error kinds, told apart by its
\* message, with no parsed pair, or the pair with the marketplace's id
\* parameter and no error.
C11_ParseClassifies ==
    last.op = "convert" =>
        LET want == Classified(last.input)
        IN  IF want.kind = "ok"
            THEN /\ convErr = ""
                 /\ conv /= << >>
                 /\ conv[1].shop_type = want.shop_type
                 /\ conv[1].id = want.id
            ELSE /\ conv = << >>
                 /\ ErrorKind(convErr) = want.kind

\* a supported host whose id parameter is there but empty was refused
C11_Witness ==
    /\ last.op = "convert"
    /\ last.input.hostname = "taobao.com"
    /\ last.input.query = [id |-> ""]
    /\ ErrorKind(convErr) = "MissingItemId"
    /\ conv = << >>

\* a piece of text cut at the delimiters of a URL's query ("?", "&", "=")
Tokens(s) ==
    CASE s = "" -> << >>
      [] s = "https://mulebuy.com/product/?shop_type=" ->
            <<"https://mulebuy.com/product/", "?", "shop_type", "=">>
      [] s = "&id=" -> <<"&", "id", "=">>
      [] s = "&ref=" -> <<"&", "ref", "=">>
      [] s = "1&ref=x" -> <<"1", "&", "ref", "=", "x">>
      [] OTHER -> <<s>>

\* the tokens of a text given as pieces
RECURSIVE TokensOf(_)
TokensOf(url) ==
    IF url = << >> THEN << >> ELSE Tokens(Head(url)) \o TokensOf(Tail(url))

\* the query of a URL: what follows the first "?"
QueryOf(url) ==
    LET t == TokensOf(url)
        at == {i \in 1..Len(t) : t[i] = "?"}
    IN  IF at = {} THEN << >>
        ELSE SubSeq(t, (CHOOSE i \in at : \A j \in at : i <= j) + 1, Len(t))

\* the name=value segments of a query, in order
RECURSIVE Segments(_)
Segments(q) ==
    LET at == {i \in 1..Len(q) : q[i] = "&"}
    IN  IF at = {} THEN <<q>>
        ELSE LET i == CHOOSE i \in at : \A j \in at : i <= j
             IN  <<SubSeq(q, 1, i - 1)>> \o Segments(SubSeq(q, i + 1, Len(q)))

\* the parameter names of a query, in order
ParamNames(q) ==
    LET named(seg) == Len(seg) >= 2 /\ seg[2] = "="
        segs == SelectSeq(Segments(q), named)
    IN  [i \in 1..Len(segs) |-> segs[i][1]]

\* URLSearchParams.get(name) on a query: the value of the first segment of
\* that name, as tokens
GetParam(q, name) ==
    LET is(seg) == Len(seg) >= 2 /\ seg[1] = name /\ seg[2] = "="
        segs == SelectSeq(Segments(q), is)
    IN  IF segs = << >> THEN <<"null">> ELSE SubSeq(segs[1], 3, Len(segs[1]))

\* C12: after a successful conversion the partner URL's shop_type parameter
\* is the parsed shop type, its id parameter is the parsed item id, and its
\* parameters are shop_type, id, ref in that order.
C12_ParseRenderRoundTrip ==
    (last.op = "convert" /\ last.arg = "ok") =>
        LET q == QueryOf(conv[1].url)
        IN  /\ GetParam(q, "shop_type") = Tokens(conv[1].shop_type)
            /\ GetParam(q, "id") = Tokens(conv[1].id)
            /\ ParamNames(q) = <<"shop_type", "id", "ref">>

\* the round trip as it goes for an item id of digits
C12_PlainId ==
    /\ last.op = "convert"
    /\ last.arg = "ok"
    /\ conv[1].id = "123"
    /\ GetParam(QueryOf(conv[1].url), "id") = <<"123">>
    /\ ParamNames(QueryOf(conv[1].url)) = <<"shop_type", "id", "ref">>

\* C13: the partner URL of a conversion carries the built-in default
\* referral code when the ref field is empty and the code typed there
\* (surrounding blanks aside) otherwise, and its ref parameter is never
\* empty, whatever the settings hold.  (Item ids free of query delimiters.)
C13_RefNeverEmpty ==
    (last.op = "convert" /\ last.arg = "ok" /\ Tokens(conv[1].id) = <<conv[1].id>>) =>
        LET r == GetParam(QueryOf(conv[1].url), "ref")
        IN  /\ ref = "" => r = <<DEFAULT_SETTINGS.defaultRef>>
            /\ ref /= "" => r = Tokens(Trim(ref))
            /\ r /= << >>

\* the ref field was emptied, the default code changed in the settings, and
\* the conversion substituted the built-in default
C13_DefaultSubstituted ==
    /\ last.op = "convert"
    /\ last.arg = "ok"
    /\ ref = ""
    /\ settings.defaultRef = "R9"
    /\ GetParam(QueryOf(conv[1].url), "ref") = <<DEFAULT_SETTINGS.defaultRef>>

\* the products that pass the list filter, the tag filter and the search
\* all at once
Visible(ps, al, tf, srch) ==
    LET pass(p) ==
            /\ al = "" \/ Get(p, "list") = al
            /\ tf = "" \/ \E i \in 1..Len(ArrOf(p, "tags")) : p.tags[i] = tf
            /\ Trim(srch) = "" \/ IncludesChars(Hay(p), ToLowerCase(Chars(Trim(srch))))
    IN  SelectSeq(ps, pass)

\* C14: whenever a control of the lists tab changes, the products are left
\* as they were and every array the memo can return holds exactly the
\* products passing the three filters, each as often as the collection does.
C14_VisibleFilters ==
    [][last'.op \in {"setActiveList", "setSearch", "setTagFilter", "setSortId"} =>
        /\ products' = products
        /\ \A out \in filtered(products', activeList', tagFilter', search', sortId') :
              LET want == Visible(products', activeList', tagFilter', search')
              IN  /\ Len(out) = Len(want)
                  /\ \A i \in 1..Len(products') :
                        Count(out, products'[i]) = Count(want, products'[i])
      ]_vars

\* a search in capitals with blanks around it, together with the tag filter,
\* keeps one product of three
C14_Witness ==
    /\ search = " Coat "
    /\ tagFilter = "qc"
    /\ activeList = "Wishlist"
    /\ Len(products) = 3
    /\ filtered(products, activeList, tagFilter, search, sortId) = {<<ListedProducts[1]>>}
    /\ \E i \in 1..3 : products[i] = ListedProducts[2]

\* C15: when the file reads of an image import complete, the product's
\* images become the images it holds at that moment followed by the imported
\* ones: no change made since the import started is lost.
C15_NoLostUpdate ==
    [][last'.op = "imagesRead" =>
        /\ Len(products') = Len(products)
        /\ \A i \in 1..Len(products) :
              products[i].uid = last'.entry.p.uid =>
                  products'[i].images = ArrOf(products[i], "images") \o last'.entry.urls
      ]_vars

\* an import that completes with nothing changed in between
C15_Undisturbed ==
    /\ last.op = "imagesRead"
    /\ Len(products) = 1
    /\ products[1].images = <<"img0", "imgA">>
    /\ pending = {}

\* the stable sort under the order in which a price that is empty or no
\* numeral counts as 0
RECURSIVE SortedAsZero(_, _)
SortedAsZero(arr, sid) ==
    IF arr = << >> THEN << >>
    ELSE LET done == SortedAsZero(SubSeq(arr, 1, Len(arr) - 1), sid)
             x == arr[Len(arr)]
             before == {i \in 1..Len(done) : bySort_NaNAsZero(sid, done[i], x).v <= 0}
             at == IF before = {} THEN 0 ELSE CHOOSE i \in before : \A j \in before : j <= i
         IN  SubSeq(done, 1, at) \o <<x>> \o SubSeq(done, at + 1, Len(done))

\* C16: under every sort key the visible products come in the stable order
\* of a total order, a price that is empty or no numeral counting as 0.
C16_SortTotalStable ==
    \A out \in filtered(products, activeList, tagFilter, search, sortId) :
        out = SortedAsZero(Kept(products, activeList, tagFilter, search), sortId)

\* prices that are numerals or empty sort as the claim says
C16_NumeralPrices ==
    /\ sortId = "price_asc"
    /\ tagFilter = "qc"
    /\ products = <<ListedProducts[1], ListedProducts[2], ListedProducts[4]>>
    /\ filtered(products, activeList, tagFilter, search, sortId)
          = {<<ListedProducts[4], ListedProducts[1]>>}

\* C17: the history in memory and the history stored under the
\* current-version key never hold more than 400 entries.
C17_HistoryBounded ==
    /\ Len(history) <= HISTORY_CAP
    /\ storage[KeyHistory].t = "array" => Len(storage[KeyHistory].v) <= HISTORY_CAP

\* a conversion brought a migrated history that was too long back to the cap
C17_CutByConversion ==
    /\ last.op = "convert"
    /\ last.arg = "ok"
    /\ added.base > HISTORY_CAP
    /\ Len(history) = HISTORY_CAP
    /\ Len(storage[KeyHistory].v) = HISTORY_CAP

\* C18: the referral code recorded in a history entry, and in a product that
\* carries a partner URL, is the ref parameter of the recorded URL,
\* surrounding blanks aside.  (Item ids free of query delimiters.)
C18_RefMatchesUrl ==
    /\ \A i \in 1..Len(history) :
          Tokens(history[i].id) = <<history[i].id>> =>
              GetParam(QueryOf(history[i].out), "ref") = Tokens(Trim(history[i].ref))
    /\ \A i \in 1..Len(products) :
          (products[i].mulebuy_url /= << >> /\ Tokens(products[i].id) = <<products[i].id>>) =>
              GetParam(QueryOf(products[i].mulebuy_url), "ref")
                  = Tokens(Trim(products[i].ref))

\* a conversion with a typed code was saved as a product: entry and product
\* record the code their URL carries
C18_TypedCode ==
    /\ last.op = "saveConverted"
    /\ history /= << >>
    /\ history[1].ref = "R9"
    /\ GetParam(QueryOf(history[1].out), "ref") = <<"R9">>
    /\ products[1].ref = "R9"
    /\ products[1].mulebuy_url = history[1].out

\* C19: every selected identifier is the uid of a product of the collection.
C19_SelectionLive ==
    \A u \in selection : \E i \in 1..Len(products) : products[i].uid = u

\* a bulk delete removed the selected product and emptied the selection
C19_BulkDeleteClears ==
    /\ last.op = "bulkDelete"
    /\ last.arg = "yes"
    /\ selection = {}
    /\ Len(products) = 1

\* C20: when the current-version settings key holds a settings object as the
\* page loads, the settings in memory after startup are that object, and the
\* key still holds it after startup and after the first persistence pass.
C20_SettingsSurviveStartup ==
    [][/\ (pc = "start" /\ storage[KeySettings].t = "object") =>
            /\ settings' = storage[KeySettings].v
            /\ storage'[KeySettings] = storage[KeySettings]
       /\ (pc = "booted" /\ pc' = "idle") => storage'[KeySettings] = StringifyObj(settings)
      ]_vars

\* stored settings were loaded beside stored products and are still stored
\* after the mount effects
C20_CurrentPath ==
    /\ pc = "idle"
    /\ last.op = "mount"
    /\ settings = StoredSettings.v
    /\ storage[KeySettings] = StoredSettings
    /\ Len(products) = 1

====
